---- MODULE Spec2Model ----
(***************************************************************************)
(* ddtt.py: the Divine Divinity text translator.  A binary string table is *)
(* segmented into text lines (encode_to_text, the "decode" command) and    *)
(* text lines are reassembled into a binary buffer (decode_from_text, the  *)
(* "encode" command).                                                      *)
(*                                                                         *)
(* Bytes are integers 0..255.  Text (a Python str) is a sequence of        *)
(* Unicode code points, so a text line is a sequence of integers.          *)
(***************************************************************************)
EXTENDS Integers, Sequences, FiniteSets, TLC

VARIABLES
    command,       \* args.command: "decode" (binary -> text) or "encode"
    charset,       \* args.charset
    pc,            \* "seg", "seg_done", "asm", "asm_done", "asm_error"
    binary_data,   \* encode_to_text: the input buffer
    offset,        \* encode_to_text: the cursor
    lines,         \* encode_to_text: the lines emitted so far
    spans,         \* per emitted line: kind, cursor at emission, bytes it renders, text
    probed,        \* offsets at which try_read_string has been called
    text_lines,    \* decode_from_text: the input lines
    line_num,      \* decode_from_text: number of lines consumed so far
    binary_parts,  \* decode_from_text: the list of byte strings appended so far
    contrib,       \* per consumed line: the bytes that line appended
    result,        \* decode_from_text: <<the returned buffer>>, NoResult until it returns
    error          \* the ValueError raised by decode_from_text, NoError if none

vars == <<command, charset, pc, binary_data, offset, lines, spans, probed,
          text_lines, line_num, binary_parts, contrib, result, error>>

segVars == <<binary_data, offset, lines, spans, probed>>
asmVars == <<text_lines, line_num, binary_parts, contrib, result, error>>

(***************************************************************************)
(* Bounds of the model.                                                    *)
(***************************************************************************)
MaxPieces == 3    \* a buffer is the concatenation of at most MaxPieces pieces
MaxLines == 2     \* a text file given to the encode command has at most MaxLines lines

(***************************************************************************)
(* Program constants.                                                      *)
(***************************************************************************)
MinLength == 4
MaxLength == 2000
ChunkCap == 16

\* result is <<>> until decode_from_text returns, then <<buffer>>
NoResult == <<>>
NoError == [line |-> 0, kind |-> "none"]

(***************************************************************************)
(* Sequence helpers (Python str / bytes primitives).                       *)
(***************************************************************************)
RECURSIVE Flatten(_)
Flatten(ss) == IF ss = <<>> THEN <<>> ELSE Head(ss) \o Flatten(Tail(ss))

StartsWith(s, p) == Len(s) >= Len(p) /\ SubSeq(s, 1, Len(p)) = p

EndsWith(s, p) == Len(s) >= Len(p) /\ SubSeq(s, Len(s) - Len(p) + 1, Len(s)) = p

\* str.replace(old, new): leftmost, non-overlapping occurrences, old non-empty
RECURSIVE Replace(_, _, _)
Replace(s, old, new) ==
    IF Len(s) < Len(old) THEN s
    ELSE IF StartsWith(s, old)
         THEN new \o Replace(SubSeq(s, Len(old) + 1, Len(s)), old, new)
         ELSE <<Head(s)>> \o Replace(Tail(s), old, new)

(***************************************************************************)
(* Charsets: bytes.decode(charset) and str.encode(charset).                *)
(* cp1252 maps 0x80..0x9F through the table below (0 marks a byte the      *)
(* codec leaves undefined), everything else to the same code point.        *)
(***************************************************************************)
Charsets == {"cp1252", "ascii", "latin-1"}

Cp1252High ==
    <<8364, 0, 8218, 402, 8222, 8230, 8224, 8225, 710, 8240, 352, 8249, 338, 0, 381, 0,
      0, 8216, 8217, 8220, 8221, 8226, 8211, 8212, 732, 8482, 353, 8250, 339, 0, 382, 376>>

\* the code point of one byte, or -1 where decoding raises UnicodeDecodeError
DecodeByte(b, cs) ==
    CASE cs = "ascii" -> IF b < 128 THEN b ELSE -1
      [] cs = "latin-1" -> b
      [] OTHER -> IF b >= 128 /\ b <= 159
                  THEN (IF Cp1252High[b - 127] = 0 THEN -1 ELSE Cp1252High[b - 127])
                  ELSE b

\* the byte of one code point, or -1 where encoding raises UnicodeEncodeError
EncodeChar(c, cs) ==
    CASE cs = "ascii" -> IF c < 128 THEN c ELSE -1
      [] cs = "latin-1" -> IF c < 256 THEN c ELSE -1
      [] OTHER -> IF c < 128 \/ (c >= 160 /\ c <= 255) THEN c
                  ELSE IF \E i \in 1..32 : Cp1252High[i] = c
                       THEN 127 + (CHOOSE i \in 1..32 : Cp1252High[i] = c)
                       ELSE -1

DecodeOk(bs, cs) == \A i \in 1..Len(bs) : DecodeByte(bs[i], cs) >= 0
DecodeText(bs, cs) == [i \in 1..Len(bs) |-> DecodeByte(bs[i], cs)]
EncodeOk(t, cs) == \A i \in 1..Len(t) : EncodeChar(t[i], cs) >= 0
EncodeText(t, cs) == [i \in 1..Len(t) |-> EncodeChar(t[i], cs)]

(***************************************************************************)
(* is_valid_string and try_read_string: the string-record recognizer.      *)
(***************************************************************************)
is_valid_string(byte) ==
    \/ (32 <= byte /\ byte <= 126)
    \/ byte \in {9, 10, 13}
    \/ (128 <= byte /\ byte <= 255)

IsPrintable(b) == (32 <= b /\ b <= 126) \/ b \in {9, 10, 13}

\* struct.unpack("<I", data[offset : offset + 4])[0].  The model checker's integers
\* are 32-bit signed: a value of 2^31 or more (top byte >= 128) is given as
\* 2^31 - 1, which every comparison of the source treats alike (> 2000).
UnpackLE32(data, off) ==
    IF data[off + 4] >= 128 THEN 2147483647
    ELSE data[off + 1] + 256 * data[off + 2] + 65536 * data[off + 3]
         + 16777216 * data[off + 4]

\* 4 <= length <= 2000
LengthOk(length) == MinLength <= length /\ length <= MaxLength

\* printable_count / len(text_bytes) < 0.80 on a non-empty payload
RatioTooLow(text_bytes) ==
    LET printable_count == Cardinality({i \in 1..Len(text_bytes) : IsPrintable(text_bytes[i])})
    IN  Len(text_bytes) > 0 /\ 5 * printable_count < 4 * Len(text_bytes)

TerminatorAny(byte) == TRUE

\* data[str_offset + length - 1] == 0
TerminatorOk(byte) == byte = 0

ConsumedShort(length) == 4 + length - 1

\* consumed = 4 + length
Consumed(length) == 4 + length

NoMatch == [ok |-> FALSE, text |-> <<>>, consumed |-> 0]

\* offsets are 0-based as in the source; data is a 1-based sequence
try_read_string(data, off, cs) ==
    IF off + 4 > Len(data) THEN NoMatch
    ELSE LET length == UnpackLE32(data, off)
             str_offset == off + 4
         IN  IF ~LengthOk(length) THEN NoMatch
             ELSE IF str_offset + length > Len(data) THEN NoMatch
             ELSE IF ~TerminatorOk(data[str_offset + length]) THEN NoMatch
             ELSE LET text_bytes == SubSeq(data, str_offset + 1, str_offset + length - 1)
                  IN  IF \E i \in 1..Len(text_bytes) : ~is_valid_string(text_bytes[i])
                      THEN NoMatch
                      ELSE IF RatioTooLow(text_bytes) THEN NoMatch
                      ELSE IF ~DecodeOk(text_bytes, cs) THEN NoMatch
                      ELSE [ok |-> TRUE, text |-> DecodeText(text_bytes, cs),
                            consumed |-> Consumed(length)]

(***************************************************************************)
(* encode_to_text: escaping and line formatting.                           *)
(***************************************************************************)
\* text.replace("\\", "\\\\").replace('"', '\\"')
\*     .replace("\n", "\\n").replace("\r", "\\r").replace("\t", "\\t")
Escape(text) ==
    LET e1 == Replace(text, <<92>>, <<92, 92>>)
        e2 == Replace(e1, <<34>>, <<92, 34>>)
        e3 == Replace(e2, <<10>>, <<92, 110>>)
        e4 == Replace(e3, <<13>>, <<92, 114>>)
    IN  Replace(e4, <<9>>, <<92, 116>>)

\* f'"{escaped}"'
StringLine(text) == <<34>> \o Escape(text) \o <<34>>

\* one digit of f"{b:02X}"
HexDigit(d) == IF d < 10 THEN 48 + d ELSE 55 + d

RECURSIVE JoinHex(_)
\* " ".join(f"{b:02X}" for b in chunk_bytes)
JoinHex(bs) ==
    IF bs = <<>> THEN <<>>
    ELSE <<HexDigit(Head(bs) \div 16), HexDigit(Head(bs) % 16)>>
         \o (IF Len(bs) > 1 THEN <<32>> ELSE <<>>) \o JoinHex(Tail(bs))

RawLineNoSpace(chunk_bytes) == <<35>> \o JoinHex(chunk_bytes)

\* f"# {hex_str}"
RawLine(chunk_bytes) == <<35, 32>> \o JoinHex(chunk_bytes)

ChunkFullAt15(n) == n >= ChunkCap - 1

ChunkFullAt17(n) == n >= ChunkCap + 1

\* len(chunk_bytes) >= 16
ChunkFull(n) == n >= ChunkCap

RECURSIVE Accumulate(_, _, _, _)
\* the inner while loop: the chunk accumulated from cursor off, given the
\* bytes in chunk_bytes so far
Accumulate(data, off, cs, chunk_bytes) ==
    IF ~(off < Len(data)) THEN chunk_bytes
    ELSE IF try_read_string(data, off, cs).ok THEN chunk_bytes
    ELSE LET next == Append(chunk_bytes, data[off + 1])
         IN  IF ChunkFull(Len(next)) THEN next
             ELSE Accumulate(data, off + 1, cs, next)

(***************************************************************************)
(* decode_from_text: line parsing helpers.                                 *)
(***************************************************************************)
\* characters str.strip() and str.split() treat as whitespace
IsSpace(c) ==
    IF c < 128
    THEN c = 32 \/ (9 <= c /\ c <= 13) \/ (28 <= c /\ c <= 31)
    ELSE \/ c = 133 \/ c = 160 \/ c = 5760 \/ (8192 <= c /\ c <= 8202)
         \/ c = 8232 \/ c = 8233 \/ c = 8239 \/ c = 8287 \/ c = 12288

RECURSIVE RStripNL(_)
\* line.rstrip("\n\r")
RStripNL(s) ==
    IF s # <<>> /\ s[Len(s)] \in {10, 13} THEN RStripNL(SubSeq(s, 1, Len(s) - 1)) ELSE s

RECURSIVE LStrip(_)
LStrip(s) == IF s # <<>> /\ IsSpace(Head(s)) THEN LStrip(Tail(s)) ELSE s

RECURSIVE RStrip(_)
RStrip(s) == IF s # <<>> /\ IsSpace(s[Len(s)]) THEN RStrip(SubSeq(s, 1, Len(s) - 1)) ELSE s

\* str.strip()
Strip(s) == RStrip(LStrip(s))

RECURSIVE WordEnd(_, _)
\* the index of the last character of the whitespace-free run starting at i
WordEnd(s, i) == IF i < Len(s) /\ ~IsSpace(s[i + 1]) THEN WordEnd(s, i + 1) ELSE i

RECURSIVE SplitFrom(_, _)
SplitFrom(s, i) ==
    IF i > Len(s) THEN <<>>
    ELSE IF IsSpace(s[i]) THEN SplitFrom(s, i + 1)
    ELSE <<SubSeq(s, i, WordEnd(s, i))>> \o SplitFrom(s, WordEnd(s, i) + 1)

\* str.split(): the maximal runs of non-whitespace characters
Split(s) == SplitFrom(s, 1)

IsHexChar(c) == (48 <= c /\ c <= 57) \/ (65 <= c /\ c <= 70) \/ (97 <= c /\ c <= 102)

HexVal(c) == IF c <= 57 THEN c - 48 ELSE IF c <= 70 THEN c - 55 ELSE c - 87

\* bytes.fromhex(tok) raises ValueError: a non-hex character or an odd number of digits
FromHexOk(tok) == Len(tok) % 2 = 0 /\ \A i \in 1..Len(tok) : IsHexChar(tok[i])

\* bytes.fromhex(tok): one byte per pair of hex digits
FromHex(tok) == [i \in 1..(Len(tok) \div 2) |-> 16 * HexVal(tok[2 * i - 1]) + HexVal(tok[2 * i])]

\* escaped_text.replace("\\n", "\n").replace("\\r", "\r").replace("\\t", "\t")
\*     .replace('\\"', '"').replace("\\\\", "\\")
Unescape(escaped_text) ==
    LET u1 == Replace(escaped_text, <<92, 110>>, <<10>>)
        u2 == Replace(u1, <<92, 114>>, <<13>>)
        u3 == Replace(u2, <<92, 116>>, <<9>>)
        u4 == Replace(u3, <<92, 34>>, <<34>>)
    IN  Replace(u4, <<92, 92>>, <<92>>)

\* struct.pack("<I", length)
PackLE32(n) == <<n % 256, (n \div 256) % 256, (n \div 65536) % 256, (n \div 16777216) % 256>>

LineNoZeroBased(consumed) == consumed

\* enumerate(lines, 1): the number of the line after `consumed` earlier lines
LineNo(consumed) == consumed + 1

\* the line under the cursor, after line.rstrip("\n\r")
CurLine == RStripNL(text_lines[line_num + 1])

IsBlankOrComment(line) == line = <<>> \/ StartsWith(line, <<47, 47>>)

IsRaw(line) == StartsWith(line, <<35, 32>>)

IsString(line) == StartsWith(line, <<34>>) /\ EndsWith(line, <<34>>)

\* hex_part = line[2:].strip(); hex_bytes = hex_part.split()
HexTokens(line) == Split(Strip(SubSeq(line, 3, Len(line))))

\* line[1:-1]
Interior(line) == SubSeq(line, 2, Len(line) - 1)

\* the byte strings appended before the first token that fails to parse
GoodPrefix(toks) ==
    LET bad == {i \in 1..Len(toks) : ~FromHexOk(toks[i])}
        n == IF bad = {} THEN Len(toks) ELSE (CHOOSE i \in bad : \A j \in bad : i <= j) - 1
    IN  [i \in 1..n |-> FromHex(toks[i])]

(***************************************************************************)
(* Inputs.  A buffer is a concatenation of pieces; a text file is a        *)
(* sequence of lines as readlines() returns them.                          *)
(***************************************************************************)
Pieces ==
    { <<5, 0, 0, 0>>,                        \* length field 5
      <<3, 0, 0, 0>>,                        \* length field 3, below the minimum
      <<209, 7, 0, 0>>,                      \* length field 2001, above the maximum
      <<0>>,                                 \* NUL
      <<65>>,                                \* A
      <<92, 110, 65, 66>>,                   \* backslash n A B
      <<34, 92, 34, 128, 9, 66, 0>>,         \* " \ " 0x80 TAB B NUL
      <<222, 173, 190, 239, 1, 2, 255, 254, 7>>,   \* nine junk bytes
      <<4, 0, 0, 0, 88, 13, 10, 0>> }        \* a whole record: X CR LF

TextLineSet ==
    { <<35, 32, 68, 69, 32, 65, 68, 10>>,    \* # DE AD
      <<35, 32, 90, 90, 10>>,                \* # ZZ
      <<35, 32, 48, 97, 32, 68, 10>>,        \* # 0a D
      <<35, 32, 68, 69, 65, 68, 10>>,        \* # DEAD
      <<35, 32, 32, 13, 10>>,                \* "# " followed by a space, CRLF
      <<35>>,                                \* #
      <<13, 10>>,                            \* blank, CRLF
      <<47, 47, 32, 99, 10>>,                \* // c
      <<34, 65, 34, 10>>,                    \* "A"
      <<34, 65, 66, 67, 34, 10>>,            \* "ABC"
      <<34, 8364, 92, 34, 92, 92, 92, 110, 34, 10>>,  \* "<euro>\"\\\n"
      <<34, 256, 34, 10>>,                   \* "<U+0100>"
      <<34>>,                                \* a lone double-quote
      <<120, 121, 10>> }                     \* xy

SeqsUpTo(S, n) == UNION {[1..k -> S] : k \in 0..n}

Buffers == {Flatten(ps) : ps \in SeqsUpTo(Pieces, MaxPieces)}

TextFiles == SeqsUpTo(TextLineSet, MaxLines)

(***************************************************************************)
(* Init: main() dispatches on args.command.                                *)
(***************************************************************************)
Init ==
    /\ charset \in Charsets
    /\ \/ /\ command = "decode"
          /\ pc = "seg"
          /\ binary_data \in Buffers
          /\ text_lines = <<>>
       \/ /\ command = "encode"
          /\ pc = "asm"
          /\ binary_data = <<>>
          /\ text_lines \in TextFiles
    /\ offset = 0
    /\ lines = <<>>
    /\ spans = <<>>
    /\ probed = {}
    /\ line_num = 0
    /\ binary_parts = <<>>
    /\ contrib = <<>>
    /\ result = NoResult
    /\ error = NoError

(***************************************************************************)
(* encode_to_text: one action per iteration of the outer loop.             *)
(***************************************************************************)
\* the recognizer matches at the cursor: a string line
EmitString ==
    /\ pc = "seg"
    /\ offset < Len(binary_data)
    /\ \E r \in {try_read_string(binary_data, offset, charset)} :
           /\ r.ok
           /\ lines' = Append(lines, StringLine(r.text))
           /\ spans' = Append(spans, [kind |-> "string", start |-> offset,
                                      n |-> 4 + Len(r.text) + 1,
                                      text |-> r.text])
           /\ offset' = offset + r.consumed
    /\ probed' = probed \cup {offset}
    /\ UNCHANGED <<command, charset, pc, binary_data>>
    /\ UNCHANGED asmVars

\* the recognizer rejects at the cursor: accumulate and emit a raw chunk
EmitChunk ==
    /\ pc = "seg"
    /\ offset < Len(binary_data)
    /\ ~try_read_string(binary_data, offset, charset).ok
    /\ \E chunk_bytes \in {Accumulate(binary_data, offset, charset, <<>>)} :
       LET stop == offset + Len(chunk_bytes)
       IN  /\ lines' = Append(lines, RawLine(chunk_bytes))
           /\ spans' = Append(spans, [kind |-> "raw", start |-> offset,
                                      n |-> Len(chunk_bytes), text |-> <<>>])
           /\ offset' = stop
           \* the inner loop probes every offset of the chunk, and the offset
           \* it stops at unless the cap or the end of the buffer stopped it
           /\ probed' = probed \cup (offset..(stop - 1))
                        \cup (IF stop < Len(binary_data) /\ ~ChunkFull(Len(chunk_bytes))
                              THEN {stop} ELSE {})
    /\ UNCHANGED <<command, charset, pc, binary_data>>
    /\ UNCHANGED asmVars

\* the outer loop ends: return lines
SegReturn ==
    /\ pc = "seg"
    /\ ~(offset < Len(binary_data))
    /\ pc' = "seg_done"
    /\ UNCHANGED <<command, charset>>
    /\ UNCHANGED segVars
    /\ UNCHANGED asmVars

\* decode_from_text applied to the lines encode_to_text returned
Reassemble ==
    /\ pc = "seg_done"
    /\ pc' = "asm"
    /\ text_lines' = lines
    /\ UNCHANGED <<command, charset>>
    /\ UNCHANGED segVars
    /\ UNCHANGED <<line_num, binary_parts, contrib, result, error>>

(***************************************************************************)
(* decode_from_text: one action per line of the input.  A value used more  *)
(* than once is bound by \E x \in {e}, which evaluates e once.              *)
(***************************************************************************)
\* a blank line or a // comment: continue
AsmSkip ==
    /\ pc = "asm"
    /\ line_num < Len(text_lines)
    /\ IsBlankOrComment(CurLine)
    /\ line_num' = line_num + 1
    /\ contrib' = Append(contrib, <<>>)
    /\ UNCHANGED <<command, charset, pc, text_lines, binary_parts, result, error>>
    /\ UNCHANGED segVars

\* a "# " line with nothing after the prefix: continue
AsmEmptyRaw ==
    /\ pc = "asm"
    /\ line_num < Len(text_lines)
    /\ ~IsBlankOrComment(CurLine)
    /\ IsRaw(CurLine)
    /\ HexTokens(CurLine) = <<>>
    /\ line_num' = line_num + 1
    /\ contrib' = Append(contrib, <<>>)
    /\ UNCHANGED <<command, charset, pc, text_lines, binary_parts, result, error>>
    /\ UNCHANGED segVars

\* a "# " line whose tokens all parse: one part per token
AsmRaw ==
    /\ pc = "asm"
    /\ line_num < Len(text_lines)
    /\ ~IsBlankOrComment(CurLine)
    /\ IsRaw(CurLine)
    /\ \E hex_bytes \in {HexTokens(CurLine)} :
           /\ hex_bytes # <<>>
           /\ \A i \in 1..Len(hex_bytes) : FromHexOk(hex_bytes[i])
           /\ \E parts \in {GoodPrefix(hex_bytes)} :
                  /\ binary_parts' = binary_parts \o parts
                  /\ contrib' = Append(contrib, Flatten(parts))
    /\ line_num' = line_num + 1
    /\ UNCHANGED <<command, charset, pc, text_lines, result, error>>
    /\ UNCHANGED segVars

\* a "# " line with a token bytes.fromhex rejects: the tokens before it have
\* been appended when ValueError is raised
AsmHexError ==
    /\ pc = "asm"
    /\ line_num < Len(text_lines)
    /\ ~IsBlankOrComment(CurLine)
    /\ IsRaw(CurLine)
    /\ \E hex_bytes \in {HexTokens(CurLine)} :
           /\ \E i \in 1..Len(hex_bytes) : ~FromHexOk(hex_bytes[i])
           /\ binary_parts' = binary_parts \o GoodPrefix(hex_bytes)
    /\ error' = [line |-> LineNo(line_num), kind |-> "hex"]
    /\ pc' = "asm_error"
    /\ UNCHANGED <<command, charset, text_lines, line_num, contrib, result>>
    /\ UNCHANGED segVars

\* a quoted line whose text encodes: length field, text bytes, terminator
AsmString ==
    /\ pc = "asm"
    /\ line_num < Len(text_lines)
    /\ ~IsBlankOrComment(CurLine)
    /\ ~IsRaw(CurLine)
    /\ IsString(CurLine)
    /\ \E text \in {Unescape(Interior(CurLine))} :
       LET text_bytes == EncodeText(text, charset)
           length == Len(text_bytes) + 1
       IN  /\ EncodeOk(text, charset)
           /\ binary_parts' = binary_parts \o <<PackLE32(length), text_bytes, <<0>>>>
           /\ contrib' = Append(contrib, PackLE32(length) \o text_bytes \o <<0>>)
    /\ line_num' = line_num + 1
    /\ UNCHANGED <<command, charset, pc, text_lines, result, error>>
    /\ UNCHANGED segVars

\* a quoted line whose text does not encode: UnicodeEncodeError becomes ValueError
AsmEncodingError ==
    /\ pc = "asm"
    /\ line_num < Len(text_lines)
    /\ ~IsBlankOrComment(CurLine)
    /\ ~IsRaw(CurLine)
    /\ IsString(CurLine)
    /\ ~EncodeOk(Unescape(Interior(CurLine)), charset)
    /\ error' = [line |-> LineNo(line_num), kind |-> "encoding"]
    /\ pc' = "asm_error"
    /\ UNCHANGED <<command, charset, text_lines, line_num, binary_parts, contrib, result>>
    /\ UNCHANGED segVars

\* any other line: ValueError "Invalid format"
AsmFormatError ==
    /\ pc = "asm"
    /\ line_num < Len(text_lines)
    /\ ~IsBlankOrComment(CurLine)
    /\ ~IsRaw(CurLine)
    /\ ~IsString(CurLine)
    /\ error' = [line |-> LineNo(line_num), kind |-> "format"]
    /\ pc' = "asm_error"
    /\ UNCHANGED <<command, charset, text_lines, line_num, binary_parts, contrib, result>>
    /\ UNCHANGED segVars

\* the loop ends: return b"".join(binary_parts)
AsmReturn ==
    /\ pc = "asm"
    /\ ~(line_num < Len(text_lines))
    /\ result' = <<Flatten(binary_parts)>>
    /\ pc' = "asm_done"
    /\ UNCHANGED <<command, charset, text_lines, line_num, binary_parts, contrib, error>>
    /\ UNCHANGED segVars

Next ==
    \/ EmitString
    \/ EmitChunk
    \/ SegReturn
    \/ Reassemble
    \/ AsmSkip
    \/ AsmEmptyRaw
    \/ AsmRaw
    \/ AsmHexError
    \/ AsmString
    \/ AsmEncodingError
    \/ AsmFormatError
    \/ AsmReturn

Spec == Init /\ [][Next]_vars

(***************************************************************************)
(* Properties.                                                             *)
(***************************************************************************)
\* encode_to_text has returned
Done == command = "decode" /\ pc # "seg"

\* byte offset k lies in a raw-chunk line
InRaw(k) ==
    \E i \in 1..Len(spans) :
        spans[i].kind = "raw" /\ spans[i].start <= k /\ k < spans[i].start + spans[i].n

\* line i of the input went down the string branch / the raw-chunk branch
TookStringBranch(i) ==
    LET l == RStripNL(text_lines[i])
    IN  ~IsBlankOrComment(l) /\ ~IsRaw(l) /\ IsString(l)

TookRawBranch(i) ==
    LET l == RStripNL(text_lines[i])
    IN  ~IsBlankOrComment(l) /\ IsRaw(l)

\* C1: round-trip law.  Whenever decode_from_text has finished on the lines
\* encode_to_text produced for a buffer, it has returned (not raised) and the
\* returned buffer equals the original, byte for byte.
RoundTripLaw ==
    (command = "decode" /\ pc \in {"asm_done", "asm_error"})
        => (pc = "asm_done" /\ result = <<binary_data>>)

\* C2: escaping inverse.  For every string line the segmenter emitted, the
\* reassembler's unescape sequence applied to the escaped rendering between
\* the quotes gives back the decoded text the line was rendered from.
EscapingInverse ==
    \A i \in 1..Len(spans) :
        spans[i].kind = "string" => Unescape(Interior(lines[i])) = spans[i].text

\* C3: segmentation totality.  The byte ranges of the emitted lines start at
\* offset 0, each begins where the previous one ends, each holds at least one
\* byte (so the cursor advances and the loop ends), none reaches past the
\* buffer, and on return they end at len(B): the byte counts sum to len(B).
SegmentationTotality ==
    /\ Len(lines) = Len(spans)
    /\ \A i \in 1..Len(spans) :
        /\ spans[i].start = (IF i = 1 THEN 0 ELSE spans[i - 1].start + spans[i - 1].n)
        /\ spans[i].n >= 1
        /\ spans[i].start + spans[i].n <= Len(binary_data)
    /\ offset = (IF spans = <<>> THEN 0
                 ELSE spans[Len(spans)].start + spans[Len(spans)].n)
    /\ Done => offset = Len(binary_data)

SegmentationTotalityWitness ==
    /\ Done
    /\ Len(spans) >= 3
    /\ \E i, j \in 1..Len(spans) : spans[i].kind = "string" /\ spans[j].kind = "raw"

\* C4: raw-chunk bound.  Every raw-chunk line encodes at least 1 and at most
\* 16 bytes, and the line holds exactly that many two-digit hex tokens.
RawChunkBound ==
    \A i \in 1..Len(spans) :
        spans[i].kind = "raw" =>
            /\ 1 <= spans[i].n
            /\ spans[i].n <= 16
            /\ \A toks \in {HexTokens(lines[i])} :
                /\ Len(toks) = spans[i].n
                /\ \A t \in 1..Len(toks) : Len(toks[t]) = 2

RawChunkBoundWitness ==
    /\ Done
    /\ \E i, j \in 1..Len(spans) :
        /\ spans[i].kind = "raw" /\ spans[i].n = 16
        /\ spans[j].kind = "raw" /\ spans[j].n < 16

\* the record claimed at offset o has length 3 or 2001, or a last payload
\* byte that is not zero
Rejectable(o) ==
    /\ o + 4 <= Len(binary_data)
    /\ LET L == UnpackLE32(binary_data, o)
       IN  \/ L \in {3, 2001}
           \/ /\ 4 <= L /\ L <= 2000
              /\ o + 4 + L <= Len(binary_data)
              /\ binary_data[o + 4 + L] # 0

\* a string line is emitted at offset o only for a length in 4..2000 that
\* fits the buffer and ends in a zero byte
StringOnlyIfRecord ==
    \A i \in 1..Len(spans) :
        spans[i].kind = "string" =>
            LET o == spans[i].start
            IN  /\ o + 4 <= Len(binary_data)
                /\ 4 <= UnpackLE32(binary_data, o)
                /\ UnpackLE32(binary_data, o) <= 2000
                /\ o + 4 + UnpackLE32(binary_data, o) <= Len(binary_data)
                /\ binary_data[o + 4 + UnpackLE32(binary_data, o)] = 0

\* C5 as stated: recognition soundness, and at every cursor offset whose
\* record claims length 3 or 2001 or has a non-zero last payload byte, no
\* string line starts and all four length-field bytes are in raw-chunk lines.
RecognitionSoundnessAllFour ==
    /\ StringOnlyIfRecord
    /\ Done =>
        \A o \in probed :
            Rejectable(o) =>
                /\ \A i \in 1..Len(spans) :
                    ~(spans[i].kind = "string" /\ spans[i].start = o)
                /\ \A k \in o..(o + 3) : InRaw(k)

\* C5 amended: as above, but only the byte at the cursor offset itself (the
\* first length-field byte) is known to be in a raw-chunk line.
RecognitionSoundness ==
    /\ StringOnlyIfRecord
    /\ Done =>
        \A o \in probed :
            Rejectable(o) =>
                /\ \A i \in 1..Len(spans) :
                    ~(spans[i].kind = "string" /\ spans[i].start = o)
                /\ InRaw(o)

RecognitionSoundnessWitness ==
    /\ Done
    /\ \E i \in 1..Len(spans) : spans[i].kind = "string"
    /\ \E o \in probed : Rejectable(o) /\ InRaw(o) /\ ~InRaw(o + 3)

\* C6 as stated: the buffer 05 00 00 00 41 00 yields the one string line "A".
Scenario1StringLine ==
    (Done /\ binary_data = <<5, 0, 0, 0, 65, 0>>) => lines = << <<34, 65, 34>> >>

\* C6 amended: the buffer 05 00 00 00 41 00 yields exactly one line, the
\* raw-chunk line "# 05 00 00 00 41 00".
Scenario1RawLine ==
    (Done /\ binary_data = <<5, 0, 0, 0, 65, 0>>) =>
        lines = << <<35, 32, 48, 53, 32, 48, 48, 32, 48, 48, 32, 48, 48, 32,
                     52, 49, 32, 48, 48>> >>

Scenario1Witness == Done /\ binary_data = <<5, 0, 0, 0, 65, 0>> /\ Len(lines) = 1

\* C7: every string line decode_from_text accepted contributed a record of
\* the binary grammar: a little-endian length L = byte_count + 1 with
\* 4 <= L <= 2000, L - 1 payload bytes and a zero terminator, which the
\* recognizer accepts again.
RecordGrammar ==
    \A i \in 1..Len(contrib) :
        TookStringBranch(i) =>
            LET rec == contrib[i]
            IN  /\ Len(rec) >= 5
                /\ UnpackLE32(rec, 0) = Len(rec) - 4
                /\ 4 <= UnpackLE32(rec, 0)
                /\ UnpackLE32(rec, 0) <= 2000
                /\ rec[Len(rec)] = 0
                /\ try_read_string(rec, 0, charset).ok

\* C8: every raw-chunk line decode_from_text accepted has only tokens of
\* exactly two hex digits and contributed one byte per token; a hex error
\* names the line it was raised on.
HexTokenIsOneByte ==
    /\ \A i \in 1..Len(contrib) :
        TookRawBranch(i) =>
            \A toks \in {HexTokens(RStripNL(text_lines[i]))} :
                /\ \A t \in 1..Len(toks) :
                    Len(toks[t]) = 2 /\ IsHexChar(toks[t][1]) /\ IsHexChar(toks[t][2])
                /\ Len(contrib[i]) = Len(toks)
    /\ (pc = "asm_error" /\ error.kind = "hex") => error.line = line_num + 1

\* the kind of error line l is malformed with, "none" for a well-formed line
Malformed(l, cs) ==
    LET line == RStripNL(l)
    IN  IF line = <<>> \/ StartsWith(line, <<47, 47>>) THEN "none"
        ELSE IF StartsWith(line, <<35, 32>>)
             THEN (IF \E toks \in {HexTokens(line)} :
                          \E t \in 1..Len(toks) : ~FromHexOk(toks[t])
                   THEN "hex" ELSE "none")
        ELSE IF line[1] = 34 /\ line[Len(line)] = 34
             THEN (IF EncodeOk(Unescape(Interior(line)), cs) THEN "none" ELSE "encoding")
        ELSE "format"

BadLines == {i \in 1..Len(text_lines) : Malformed(text_lines[i], charset) # "none"}

RawCutOnly ==
    \A i \in 1..Len(spans) :
        spans[i].kind = "raw" =>
            /\ \A o \in spans[i].start..(spans[i].start + spans[i].n - 1) :
                /\ ~try_read_string(binary_data, o, charset).ok
                /\ o \in probed
            /\ spans[i].n < 16 =>
                IF i < Len(spans)
                THEN /\ spans[i + 1].kind = "string"
                     /\ spans[i + 1].start = spans[i].start + spans[i].n
                ELSE \/ offset = Len(binary_data)
                     \/ pc = "seg" /\ try_read_string(binary_data, offset, charset).ok

RawCutOnlyWitness ==
    /\ Done
    /\ \E i \in 1..(Len(spans) - 1) :
        spans[i].kind = "raw" /\ spans[i].n < 16 /\ spans[i + 1].kind = "string"
    /\ \E i \in 1..Len(spans) :
        spans[i].kind = "raw" /\ spans[i].n = 16

====
